---- MODULE Spec2Model ----
(***************************************************************************)
(* The two Streamlit scripts of the repository as one state machine.       *)
(*   variant 1 = src/app.py  ("Get Detailed Notes")                        *)
(*   variant 2 = src/app5.py ("Analyze Video")                             *)
(* A user event (typing a link, pressing the button) makes Streamlit run   *)
(* the script again from the top in a fresh namespace; pc is the position  *)
(* of that run.  Python strings that the scripts take apart or glue        *)
(* together (links, caption text, the prompt) are sequences of one-letter  *)
(* strings; comment bodies are only passed around and are plain strings.   *)
(* Every upstream call (transcript source, summarizer, keyword model,      *)
(* platform API) answers with an outcome picked from a small finite set.   *)
(***************************************************************************)
EXTENDS Integers, Sequences, FiniteSets, TLC

VARIABLES variant, pc, youtube_link, button, video_id, transcript_text,
          summary, video_details, comments_by_sentiment, display, calls,
          uncaught

vars == <<variant, pc, youtube_link, button, video_id, transcript_text,
          summary, video_details, comments_by_sentiment, display, calls,
          uncaught>>

(* ------------------------------ bounds --------------------------------- *)

\* longest list of caption segments the transcript source returns
MaxSegs == 2

\* longest list of comment threads the platform returns
MaxComments == 2

(* ------------------------- values and inputs --------------------------- *)

\* Python's None where a string is expected, and a name not yet bound
None == <<"None">>

Unset == <<"Unset">>

\* None / not-yet-bound where a dict is expected
NoneDict == [tag |-> "None"]

UnsetDict == [tag |-> "Unset"]

\* links the user can type: empty, no "=", "=" with nothing after it,
\* an ordinary watch link
Links ==
  { <<>>,
    <<"w">>,
    <<"w", "=">>,
    <<"w", "=", "i">> }

\* the text field of one caption segment
SegTexts == { <<"a">>, <<"b", "c">> }

RECURSIVE SeqsUpTo(_, _)
SeqsUpTo(S, n) ==
  IF n = 0 THEN { <<>> }
  ELSE LET shorter == SeqsUpTo(S, n - 1)
       IN  shorter \cup { Append(s, x) : s \in shorter, x \in S }

\* what YouTubeTranscriptApi.get_transcript can answer
TranscriptFailures ==
  { "NoTranscriptFound", "TranscriptsDisabled", "VideoUnavailable", "Other" }

TranscriptOutcomes ==
  { [kind |-> "ok", segments |-> s] : s \in SeqsUpTo(SegTexts, MaxSegs) }
    \cup { [kind |-> k] : k \in TranscriptFailures }

\* what model.generate_content(...).text can answer
SummaryOutcomes ==
  { [kind |-> "ok", text |-> t] : t \in { <<>>, <<"s">> } }
    \cup { [kind |-> "raise"] }

\* what nlp(text) can answer (the tokens themselves are not modelled)
KeywordOutcomes == { [kind |-> "ok"], [kind |-> "raise"] }

StatKeys == { "viewCount", "likeCount", "dislikeCount", "commentCount" }

\* the platform sends counts as strings of digits
StatValues == { <<"4", "2">> }

StatisticsDicts ==
  UNION { [S -> StatValues] : S \in SUBSET StatKeys }

\* what youtube.videos().list(...).execute() can answer
DetailsOutcomes ==
  { [kind |-> "ok", items |-> <<>>] }
    \cup { [kind |-> "ok",
            items |-> << [snippet |-> [title |-> "T", channelTitle |-> "C",
                                       channelId |-> "U"],
                          statistics |-> st] >>] : st \in StatisticsDicts }
    \cup { [kind |-> "raise"] }

\* comment bodies (textOriginal)
CommentTexts == { "good", "barely bad", "a video", "my opinion" }

\* what youtube.commentThreads().list(...).execute() can answer
CommentOutcomes ==
  { [kind |-> "ok", items |-> c] : c \in SeqsUpTo(CommentTexts, MaxComments) }
    \cup { [kind |-> "raise"] }

(* ----------------------------- user messages --------------------------- *)

Msg(kind, by, text, arg) == [kind |-> kind, by |-> by, text |-> text, arg |-> arg]

Call(fn, arg, outcome) == [fn |-> fn, arg |-> arg, outcome |-> outcome]

(* --------------------------- string helpers ---------------------------- *)

\* index of the first "=" of s, 0 when there is none
RECURSIVE FirstEq(_, _)
FirstEq(s, i) ==
  IF i > Len(s) THEN 0
  ELSE IF s[i] = "=" THEN i
  ELSE FirstEq(s, i + 1)

\* str.split("="): the pieces between the "=" signs, at least one piece
RECURSIVE split(_)
split(s) ==
  LET i == FirstEq(s, 1)
  IN  IF i = 0 THEN << s >>
      ELSE << SubSeq(s, 1, i - 1) >> \o split(SubSeq(s, i + 1, Len(s)))

\* youtube_video_url.split("=")[1] raises IndexError on fewer than two pieces
HasIndex1(url) == Len(split(url)) >= 2

Index1(url) == split(url)[2]

\* a join that forgets the separator
RECURSIVE JoinNoSeparator(_)
JoinNoSeparator(segments) ==
  IF segments = <<>> THEN <<>>
  ELSE Head(segments) \o JoinNoSeparator(Tail(segments))

\* " ".join([entry["text"] for entry in transcript_data])
RECURSIVE Join(_)
Join(segments) ==
  IF segments = <<>> THEN <<>>
  ELSE IF Len(segments) = 1 THEN Head(segments)
  ELSE Head(segments) \o << " " >> \o Join(Tail(segments))

\* Python truthiness of a str-or-None value
Truthy(x) == x # None /\ x # <<>>

\* the fixed instruction string (its wording does not matter, its place does)
prompt == << "P", ":", " " >>

DigitValue(d) ==
  CASE d = "0" -> 0 [] d = "1" -> 1 [] d = "2" -> 2 [] d = "3" -> 3
    [] d = "4" -> 4 [] d = "5" -> 5 [] d = "6" -> 6 [] d = "7" -> 7
    [] d = "8" -> 8 [] d = "9" -> 9

\* int("42") = 42
RECURSIVE ParseInt(_)
ParseInt(digits) ==
  IF digits = <<>> THEN 0
  ELSE 10 * ParseInt(SubSeq(digits, 1, Len(digits) - 1))
         + DigitValue(digits[Len(digits)])

\* int(stats.get(key, 0))
StatOrZero(stats, key) ==
  IF key \in DOMAIN stats THEN ParseInt(stats[key]) ELSE 0

(* ------------------------- sentiment (app5.py) ------------------------- *)

\* TextBlob(text).sentiment, in hundredths: polarity in -100..100,
\* subjectivity in 0..100
TextBlobSentiment(text) ==
  CASE text = "good"       -> [polarity |-> 70, subjectivity |-> 60]
    [] text = "barely bad" -> [polarity |-> -1, subjectivity |-> 100]
    [] text = "a video"    -> [polarity |-> 0,  subjectivity |-> 0]
    [] text = "my opinion" -> [polarity |-> 0,  subjectivity |-> 100]

\* a classifier that counts polarity 0 as Positive
analyze_sentiment_zero_positive(text) ==
  LET polarity == TextBlobSentiment(text).polarity
      subjectivity == TextBlobSentiment(text).subjectivity
      sentiment == IF polarity >= 0 THEN "Positive" ELSE "Negative"
  IN  << sentiment, polarity, subjectivity >>

analyze_sentiment(text) ==
  LET polarity == TextBlobSentiment(text).polarity
      subjectivity == TextBlobSentiment(text).subjectivity
      sentiment == IF polarity > 0 THEN "Positive"
                   ELSE IF polarity < 0 THEN "Negative"
                   ELSE "Neutral"
  IN  << sentiment, polarity, subjectivity >>

EmptySentiments == [Positive |-> <<>>, Negative |-> <<>>, Neutral |-> <<>>]

\* the for loop of get_video_comments_with_sentiments, from item i on
RECURSIVE BucketFrom(_, _, _)
BucketFrom(items, i, sentiments) ==
  IF i > Len(items) THEN sentiments
  ELSE LET comment == items[i]
           sentiment == analyze_sentiment(comment)[1]
       IN  BucketFrom(items, i + 1,
             [sentiments EXCEPT ![sentiment] = Append(@, comment)])

(* -------------------- functions returning to the script ---------------- *)
\* Each function yields [ret, display, calls, exc]: its return value, the
\* messages it showed, the upstream calls it made, and the exception that
\* left it ("none" when it returned).

Returned(ret, shown, made) ==
  [ret |-> ret, display |-> shown, calls |-> made, exc |-> "none"]

Raised(exc, shown, made) ==
  [ret |-> None, display |-> shown, calls |-> made, exc |-> exc]

\* app.py, extract_transcript_details
extract_transcript_details_app(url, o1) ==
  LET by == "extract_transcript_details"
      unexpected == Msg("error", by, "An unexpected error occurred", <<>>)
  IN  IF ~HasIndex1(url) THEN Returned(None, << unexpected >>, <<>>)
      ELSE
        LET c1 == Call("get_transcript", Index1(url), o1)
        IN  IF o1.kind = "ok"
              THEN Returned(Join(o1.segments), <<>>, << c1 >>)
            ELSE IF o1.kind = "TranscriptsDisabled"
              THEN Returned(None,
                     << Msg("error", by,
                            "Transcripts are disabled for this video", <<>>) >>,
                     << c1 >>)
            ELSE IF o1.kind = "VideoUnavailable"
              THEN Returned(None,
                     << Msg("error", by,
                            "The video is unavailable or does not exist", <<>>) >>,
                     << c1 >>)
            ELSE Returned(None, << unexpected >>, << c1 >>)

\* app.py, generate_gemini_content
generate_gemini_content_app(text, o) ==
  LET c == Call("generate_content", prompt \o text, o)
  IN  IF o.kind = "ok" THEN Returned(o.text, <<>>, << c >>)
      ELSE Returned(None,
             << Msg("error", "generate_gemini_content",
                    "An error occurred while generating the summary", <<>>) >>,
             << c >>)

\* a clause that sends every failure of the first retrieval to the fallback
ExceptAnyFailure(kind) == kind # "ok"

\* app5.py line 33: except NoTranscriptFound
ExceptNoTranscriptFound(kind) == kind = "NoTranscriptFound"

\* a fallback that reaches the warning even when the retrieval succeeded
unrestricted_retrieval_unreturned(o2, made) ==
  Returned(None,
    << Msg("warning", "extract_transcript_details",
           "No transcript available in any language for this video", <<>>) >>,
    made)

\* app5.py lines 34-41: the retrieval without a language list
unrestricted_retrieval(o2, made) ==
  IF o2.kind = "ok"
    THEN Returned(Join(o2.segments), <<>>, made)
  ELSE Returned(None,
         << Msg("warning", "extract_transcript_details",
                "No transcript available in any language for this video", <<>>) >>,
         made)

\* app5.py, extract_transcript_details
extract_transcript_details_app5(url, o1, o2) ==
  LET by == "extract_transcript_details"
  IN  IF ~HasIndex1(url)
        THEN Returned(None,
               << Msg("error", by,
                      "An unexpected error occurred while fetching the transcript",
                      <<>>) >>,
               <<>>)
      ELSE
        LET c1 == Call("get_transcript_en", Index1(url), o1)
            c2 == Call("get_transcript", Index1(url), o2)
        IN  IF o1.kind = "ok"
              THEN Returned(Join(o1.segments), <<>>, << c1 >>)
            ELSE IF ExceptNoTranscriptFound(o1.kind)
              THEN unrestricted_retrieval(o2, << c1, c2 >>)
            ELSE IF o1.kind = "TranscriptsDisabled"
              THEN Returned(None,
                     << Msg("warning", by,
                            "Subtitles are disabled for this video", <<>>) >>,
                     << c1 >>)
            ELSE Returned(None,
                   << Msg("error", by,
                          "An unexpected error occurred while fetching the transcript",
                          <<>>) >>,
                   << c1 >>)

\* app5.py, generate_gemini_content: no try, a failure leaves the function
generate_gemini_content_app5(text, o) ==
  LET c == Call("generate_content", prompt \o text, o)
  IN  IF o.kind = "ok" THEN Returned(o.text, <<>>, << c >>)
      ELSE Raised("Exception", <<>>, << c >>)

\* app5.py, extract_keywords: nlp(text), filter, de-duplicate, truncate
extract_keywords(text, o) ==
  LET c == Call("nlp", text, o)
  IN  IF o.kind = "ok" THEN Returned(<<>>, <<>>, << c >>)
      ELSE Raised("Exception", <<>>, << c >>)

\* app5.py, get_video_details
get_video_details(id, o) ==
  LET c == Call("videos.list", id, o)
  IN  IF o.kind # "ok" THEN Raised("HttpError", <<>>, << c >>)
      ELSE IF o.items = <<>> THEN Returned(NoneDict, <<>>, << c >>)
      ELSE
        LET details == o.items[1]
            stats == details.statistics
            snippet == details.snippet
        IN  Returned([tag |-> "dict",
                      title |-> snippet.title,
                      channel_title |-> snippet.channelTitle,
                      views |-> StatOrZero(stats, "viewCount"),
                      likes |-> StatOrZero(stats, "likeCount"),
                      dislikes |-> StatOrZero(stats, "dislikeCount"),
                      comments |-> StatOrZero(stats, "commentCount"),
                      channel_id |-> snippet.channelId],
                     <<>>, << c >>)

\* app5.py, get_video_comments_with_sentiments
get_video_comments_with_sentiments(id, o) ==
  LET c == Call("commentThreads.list", id, o)
  IN  IF o.kind # "ok" THEN Raised("HttpError", <<>>, << c >>)
      ELSE Returned(BucketFrom(o.items, 1, EmptySentiments), <<>>, << c >>)

(* ------------------------------ the state ------------------------------ *)

\* the page as first served: the script has run once with an empty link
Init ==
  /\ variant \in {1, 2}
  /\ pc = "idle"
  /\ youtube_link = <<>>
  /\ button = FALSE
  /\ video_id = Unset
  /\ transcript_text = Unset
  /\ summary = Unset
  /\ video_details = UnsetDict
  /\ comments_by_sentiment = UnsetDict
  /\ display = <<>>
  /\ calls = <<>>
  /\ uncaught = "none"

\* a rerun starts from the top with nothing bound and nothing shown
FreshRun ==
  /\ pc' = "top"
  /\ video_id' = Unset
  /\ transcript_text' = Unset
  /\ summary' = Unset
  /\ video_details' = UnsetDict
  /\ comments_by_sentiment' = UnsetDict
  /\ display' = <<>>
  /\ calls' = <<>>
  /\ uncaught' = "none"
  /\ UNCHANGED variant

\* st.text_input: the user commits another link
TypeLink(u) ==
  /\ pc = "idle"
  /\ u # youtube_link
  /\ youtube_link' = u
  /\ button' = FALSE
  /\ FreshRun

\* st.button: the user presses the button the last run rendered
ClickButton ==
  /\ pc = "idle"
  /\ uncaught = "none"
  /\ button' = TRUE
  /\ UNCHANGED youtube_link
  /\ FreshRun

AfterThumbnail(handler) == IF button THEN handler ELSE "idle"

(* ------------------------------- app.py -------------------------------- *)

\* app.py lines 60-65
Thumbnail_app ==
  /\ variant = 1
  /\ pc = "top"
  /\ IF youtube_link = <<>>
       THEN UNCHANGED <<video_id, display>>
     ELSE IF HasIndex1(youtube_link)
       THEN /\ video_id' = Index1(youtube_link)
            /\ display' = Append(display,
                 Msg("image", "script", "thumbnail", Index1(youtube_link)))
     ELSE /\ display' = Append(display,
               Msg("error", "script", "Invalid YouTube link", <<>>))
          /\ UNCHANGED video_id
  /\ pc' = AfterThumbnail("notes")
  /\ UNCHANGED <<variant, youtube_link, button, transcript_text, summary,
                 video_details, comments_by_sentiment, calls, uncaught>>

\* app.py lines 67-74
GetDetailedNotes ==
  /\ variant = 1
  /\ pc = "notes"
  /\ \E o1 \in TranscriptOutcomes, so \in SummaryOutcomes :
       LET t == extract_transcript_details_app(youtube_link, o1)
           g == generate_gemini_content_app(t.ret, so)
       IN  /\ transcript_text' = t.ret
           /\ IF Truthy(t.ret)
                THEN /\ summary' = g.ret
                     /\ calls' = calls \o t.calls \o g.calls
                     /\ display' =
                          display \o t.display \o g.display \o
                          ( IF Truthy(g.ret)
                              THEN << Msg("markdown", "script", "## Detailed Notes:", <<>>),
                                      Msg("write", "script", "summary", g.ret) >>
                              ELSE <<>> )
              ELSE /\ summary' = summary
                   /\ calls' = calls \o t.calls
                   /\ display' = display \o t.display
  /\ pc' = "idle"
  /\ UNCHANGED <<variant, youtube_link, button, video_id, video_details,
                 comments_by_sentiment, uncaught>>

(* ------------------------------- app5.py ------------------------------- *)

\* app5.py lines 110-112
Thumbnail_app5 ==
  /\ variant = 2
  /\ pc = "top"
  /\ IF youtube_link = <<>>
       THEN /\ pc' = AfterThumbnail("transcript")
            /\ UNCHANGED <<video_id, display, uncaught>>
     ELSE IF HasIndex1(youtube_link)
       THEN /\ video_id' = Index1(youtube_link)
            /\ display' = Append(display,
                 Msg("image", "script", "thumbnail", Index1(youtube_link)))
            /\ pc' = AfterThumbnail("transcript")
            /\ UNCHANGED uncaught
     ELSE /\ uncaught' = "IndexError"
          /\ pc' = "idle"
          /\ UNCHANGED <<video_id, display>>
  /\ UNCHANGED <<variant, youtube_link, button, transcript_text, summary,
                 video_details, comments_by_sentiment, calls>>

\* app5.py lines 117-120
AnalyzeTranscript ==
  /\ variant = 2
  /\ pc = "transcript"
  /\ \E o1 \in TranscriptOutcomes, o2 \in TranscriptOutcomes :
       LET t == extract_transcript_details_app5(youtube_link, o1, o2)
       IN  /\ transcript_text' = t.ret
           /\ calls' = calls \o t.calls
           /\ IF ~Truthy(t.ret)
                THEN /\ display' = display \o t.display \o
                          << Msg("warning", "script",
                                 "Transcript-based analysis skipped due to unavailable subtitles",
                                 <<>>) >>
                     /\ pc' = "details"
              ELSE /\ display' = display \o t.display
                   /\ pc' = "summary"
  /\ UNCHANGED <<variant, youtube_link, button, video_id, summary,
                 video_details, comments_by_sentiment, uncaught>>

\* app5.py lines 123-132
AnalyzeSummary ==
  /\ variant = 2
  /\ pc = "summary"
  /\ \E so \in SummaryOutcomes, ko \in KeywordOutcomes :
       LET g == generate_gemini_content_app5(transcript_text, so)
           k == extract_keywords(transcript_text, ko)
       IN  IF g.exc # "none"
             THEN /\ calls' = calls \o g.calls
                  /\ pc' = "except"
                  /\ UNCHANGED <<summary, display>>
           ELSE IF k.exc # "none"
             THEN /\ summary' = g.ret
                  /\ calls' = calls \o g.calls \o k.calls
                  /\ pc' = "except"
                  /\ UNCHANGED display
           ELSE /\ summary' = g.ret
                /\ calls' = calls \o g.calls \o k.calls
                /\ display' = display \o
                     << Msg("markdown", "script", "## Summary:", <<>>),
                        Msg("write", "script", "summary", g.ret),
                        Msg("markdown", "script", "### Keywords:", <<>>),
                        Msg("write", "script", "keywords", k.ret) >>
                /\ pc' = "details"
  /\ UNCHANGED <<variant, youtube_link, button, video_id, transcript_text,
                 video_details, comments_by_sentiment, uncaught>>

\* app5.py line 135
AnalyzeDetails ==
  /\ variant = 2
  /\ pc = "details"
  /\ IF video_id = Unset
       THEN \* NameError: the thumbnail block never bound video_id
            /\ pc' = "except"
            /\ UNCHANGED <<video_details, calls>>
     ELSE \E o \in DetailsOutcomes :
            LET d == get_video_details(video_id, o)
            IN  /\ calls' = calls \o d.calls
                /\ IF d.exc # "none"
                     THEN /\ pc' = "except"
                          /\ UNCHANGED video_details
                   ELSE /\ video_details' = d.ret
                        /\ pc' = "comments"
  /\ UNCHANGED <<variant, youtube_link, button, video_id, transcript_text,
                 summary, comments_by_sentiment, display, uncaught>>

\* app5.py line 138
AnalyzeComments ==
  /\ variant = 2
  /\ pc = "comments"
  /\ \E o \in CommentOutcomes :
       LET c == get_video_comments_with_sentiments(video_id, o)
       IN  /\ calls' = calls \o c.calls
           /\ IF c.exc # "none"
                THEN /\ pc' = "except"
                     /\ UNCHANGED comments_by_sentiment
              ELSE /\ comments_by_sentiment' = c.ret
                   /\ pc' = "results"
  /\ UNCHANGED <<variant, youtube_link, button, video_id, transcript_text,
                 summary, video_details, display, uncaught>>

\* st.write(f"{idx}. {comment}") for each negative comment, or the placeholder
NegativeLines(negative) ==
  IF negative # <<>>
    THEN [i \in 1..Len(negative) |->
            Msg("write", "script", "negative comment", negative[i])]
  ELSE << Msg("write", "script", "No negative comments found.", <<>>) >>

\* app5.py lines 141-159
AnalyzeResults ==
  /\ variant = 2
  /\ pc = "results"
  /\ IF video_details = NoneDict
       THEN \* TypeError: video_details['title'] on None
            /\ display' = Append(display,
                 Msg("markdown", "script", "## Video Details:", <<>>))
            /\ pc' = "except"
     ELSE /\ display' = display \o
               << Msg("markdown", "script", "## Video Details:", <<>>),
                  Msg("write", "script", "Title", video_details.title),
                  Msg("write", "script", "Channel", video_details.channel_title),
                  Msg("write", "script", "Views", video_details.views),
                  Msg("write", "script", "Likes", video_details.likes),
                  Msg("write", "script", "Dislikes", video_details.dislikes),
                  Msg("write", "script", "Comments", video_details.comments),
                  Msg("markdown", "script", "### Comment Sentiment Analysis:", <<>>),
                  Msg("write", "script", "Positive Comments",
                      Len(comments_by_sentiment.Positive)),
                  Msg("write", "script", "Negative Comments",
                      Len(comments_by_sentiment.Negative)),
                  Msg("write", "script", "Neutral Comments",
                      Len(comments_by_sentiment.Neutral)),
                  Msg("markdown", "script", "### Negative Comments:", <<>>) >>
               \o NegativeLines(comments_by_sentiment.Negative)
          /\ pc' = "idle"
  /\ UNCHANGED <<variant, youtube_link, button, video_id, transcript_text,
                 summary, video_details, comments_by_sentiment, calls, uncaught>>

\* app5.py lines 160-161
AnalyzeExcept ==
  /\ variant = 2
  /\ pc = "except"
  /\ display' = Append(display, Msg("error", "script", "An error occurred", <<>>))
  /\ pc' = "idle"
  /\ UNCHANGED <<variant, youtube_link, button, video_id, transcript_text,
                 summary, video_details, comments_by_sentiment, calls, uncaught>>

Next ==
  \/ \E u \in Links : TypeLink(u)
  \/ ClickButton
  \/ Thumbnail_app
  \/ GetDetailedNotes
  \/ Thumbnail_app5
  \/ AnalyzeTranscript
  \/ AnalyzeSummary
  \/ AnalyzeDetails
  \/ AnalyzeComments
  \/ AnalyzeResults
  \/ AnalyzeExcept

Spec == Init /\ [][Next]_vars

(* ------------------------- reading the state -------------------------- *)

\* a run started by the button has finished
ClickDone == pc = "idle" /\ button

NumCalls(fn) == Cardinality({ i \in 1..Len(calls) : calls[i].fn = fn })

Called(fn) == NumCalls(fn) > 0

Shown(kind, text) ==
  \E i \in 1..Len(display) : display[i].kind = kind /\ display[i].text = text

ShownBy(kind, by) ==
  \E i \in 1..Len(display) : display[i].kind = kind /\ display[i].by = by

HasEquals(url) == FirstEq(url, 1) # 0

\* where segment i starts in the joined text, counted from 0
RECURSIVE Offset(_, _)
Offset(segments, i) ==
  IF i <= 1 THEN 0
  ELSE Offset(segments, i - 1) + Len(segments[i - 1]) + 1

\* text holds the segments in order, one space between neighbours, nothing else
IsJoinOf(text, segments) ==
  LET n == Len(segments)
  IN  /\ text # None
      /\ Len(text) = (IF n = 0 THEN 0 ELSE Offset(segments, n + 1) - 1)
      /\ \A i \in 1..n :
           SubSeq(text, Offset(segments, i) + 1,
                  Offset(segments, i) + Len(segments[i])) = segments[i]
      /\ \A i \in 1..(n - 1) :
           text[Offset(segments, i) + Len(segments[i]) + 1] = " "

\* the transcript stage of the current run is over
TranscriptFetched == transcript_text # Unset

\* position in calls of the call to fn, 0 when it was not made
PosOf(fn) ==
  IF Called(fn) THEN CHOOSE i \in 1..Len(calls) : calls[i].fn = fn ELSE 0

OutcomeKind(fn) == IF Called(fn) THEN calls[PosOf(fn)].outcome.kind ELSE "not called"

(* ------------------------------- claims -------------------------------- *)

\* C1: in one Analyze Video run every stage is isolated: whatever the other
\* stages did, the metadata fetch and the comment fetch are attempted, the
\* summarizer and the keyword extractor are attempted whenever there is a
\* transcript, and no failure reaches the handler-wide error report.
\* (Stated for links that hold an identifier, where every stage has its input.)
C1_StagesIsolated ==
  (variant = 2 /\ ClickDone /\ video_id # Unset) =>
    /\ Called("videos.list")
    /\ Called("commentThreads.list")
    /\ (Truthy(transcript_text) => Called("generate_content") /\ Called("nlp"))
    /\ ~Shown("error", "An error occurred")

\* C2: a link without "=" always ends in the distinct invalid-link report:
\* nothing escapes the script and the generic unexpected-error report is
\* not the one shown, on the thumbnail path and on the transcript path.
C2_NoEqualsIsInvalidLink ==
  (pc = "idle" /\ ~HasEquals(youtube_link) /\ (youtube_link # <<>> \/ button)) =>
    /\ uncaught = "none"
    /\ Shown("error", "Invalid YouTube link")
    /\ ~Shown("error", "An unexpected error occurred")
    /\ ~Shown("error", "An unexpected error occurred while fetching the transcript")

\* C3: variant 2: when the English-only retrieval reports NoTranscriptFound
\* and the retrieval without a language list succeeds, the fetcher returns
\* that result's segments joined and shows neither a warning nor an error.
C3_FallbackReturnsUnrestricted ==
  (/\ variant = 2
   /\ TranscriptFetched
   /\ OutcomeKind("get_transcript_en") = "NoTranscriptFound"
   /\ OutcomeKind("get_transcript") = "ok") =>
    /\ IsJoinOf(transcript_text, calls[PosOf("get_transcript")].outcome.segments)
    /\ ~ShownBy("warning", "extract_transcript_details")
    /\ ~ShownBy("error", "extract_transcript_details")

\* C3 witness: the fallback succeeded with two segments
C3_Witness ==
  /\ variant = 2
  /\ TranscriptFetched
  /\ OutcomeKind("get_transcript_en") = "NoTranscriptFound"
  /\ OutcomeKind("get_transcript") = "ok"
  /\ calls[PosOf("get_transcript")].outcome.segments = << <<"a">>, <<"b", "c">> >>
  /\ transcript_text = << "a", " ", "b", "c" >>

\* C4: variant 2: "no transcript in any language" is reported exactly when
\* both retrievals failed for lack of a transcript, and a TranscriptsDisabled
\* answer to either retrieval is reported as "subtitles disabled" and never
\* as "no transcript".
C4_DistinctConditions ==
  (variant = 2 /\ TranscriptFetched) =>
    LET noTranscript ==
          Shown("warning", "No transcript available in any language for this video")
        disabled == Shown("warning", "Subtitles are disabled for this video")
    IN  /\ noTranscript <=>
             /\ OutcomeKind("get_transcript_en") = "NoTranscriptFound"
             /\ OutcomeKind("get_transcript") = "NoTranscriptFound"
        /\ ( \/ OutcomeKind("get_transcript_en") = "TranscriptsDisabled"
             \/ OutcomeKind("get_transcript") = "TranscriptsDisabled" )
             => (disabled /\ ~noTranscript)

\* C5: variant 2: when the fetcher returns no text, the summarizer and the
\* keyword extractor are never invoked and the metadata fetch and the
\* comment fetch are both still invoked.
\* (Stated for links that hold an identifier, where every stage has its input.)
C5_DownstreamSkip ==
  (variant = 2 /\ ClickDone /\ video_id # Unset /\ transcript_text = None) =>
    /\ ~Called("generate_content")
    /\ ~Called("nlp")
    /\ Called("videos.list")
    /\ Called("commentThreads.list")

\* C6: variant 2: zero items give the not-found value and the run handles it
\* without an exception and without the generic error report; with an item,
\* each count the platform omits is 0.
C6_NotFoundHandled ==
  (variant = 2 /\ ClickDone /\ OutcomeKind("videos.list") = "ok"
     /\ OutcomeKind("commentThreads.list") = "ok") =>
    LET items == calls[PosOf("videos.list")].outcome.items
    IN  IF items = <<>>
          THEN /\ video_details = NoneDict
               /\ ~Shown("error", "An error occurred")
        ELSE /\ ("viewCount" \notin DOMAIN items[1].statistics => video_details.views = 0)
             /\ ("likeCount" \notin DOMAIN items[1].statistics => video_details.likes = 0)
             /\ ("dislikeCount" \notin DOMAIN items[1].statistics
                   => video_details.dislikes = 0)
             /\ ("commentCount" \notin DOMAIN items[1].statistics
                   => video_details.comments = 0)

\* what C7 says of every run, whatever the link
AtMostOnceEach ==
  /\ NumCalls("generate_content") <= 1
  /\ NumCalls("videos.list") <= 1
  /\ NumCalls("commentThreads.list") <= 1
  /\ NumCalls("get_transcript_en") + NumCalls("get_transcript") <= 2
  /\ NumCalls("get_transcript_en") <= 1
  /\ NumCalls("get_transcript") <= 1
  /\ variant = 1 => ~Called("get_transcript_en")
  /\ (variant = 2 /\ Called("get_transcript")) =>
       /\ Len(calls) >= 2
       /\ calls[1].fn = "get_transcript_en"
       /\ calls[1].outcome.kind = "NoTranscriptFound"
       /\ calls[2].fn = "get_transcript"

\* C7 as stated: nothing is retried, and a finished click has called the
\* transcript source exactly once in variant 1 and exactly once with the
\* language list in variant 2.
C7_AsStated ==
  /\ AtMostOnceEach
  /\ ClickDone =>
       /\ variant = 1 => NumCalls("get_transcript") = 1
       /\ variant = 2 => NumCalls("get_transcript_en") = 1

\* C7 amended: nothing is retried; a finished click has made the first
\* transcript call exactly once when the link holds an "=", and no
\* transcript call at all when it does not.
C7_NothingRetried ==
  /\ AtMostOnceEach
  /\ ClickDone =>
       LET first == IF HasEquals(youtube_link) THEN 1 ELSE 0
       IN  /\ variant = 1 => NumCalls("get_transcript") = first
           /\ variant = 2 => /\ NumCalls("get_transcript_en") = first
                             /\ (first = 0 => ~Called("get_transcript"))

\* C7 witness: a full Analyze Video run that used the fallback
C7_Witness ==
  /\ variant = 2
  /\ ClickDone
  /\ NumCalls("get_transcript_en") = 1
  /\ NumCalls("get_transcript") = 1
  /\ NumCalls("generate_content") = 1
  /\ NumCalls("videos.list") = 1
  /\ NumCalls("commentThreads.list") = 1

\* the successful transcript call whose segments became transcript_text
LastTranscriptCall ==
  IF Called("get_transcript") THEN PosOf("get_transcript")
  ELSE PosOf("get_transcript_en")

\* C8: the transcript text is the segments' texts in receipt order with
\* single spaces between them (nothing for no segments), and the summarizer's
\* one payload is the instruction string followed by exactly that text.
C8_JoinAndPayload ==
  /\ (TranscriptFetched /\ LastTranscriptCall # 0
        /\ calls[LastTranscriptCall].outcome.kind = "ok") =>
       IsJoinOf(transcript_text, calls[LastTranscriptCall].outcome.segments)
  /\ \A i \in 1..Len(calls) :
       calls[i].fn = "generate_content" =>
         /\ NumCalls("generate_content") = 1
         /\ Len(calls[i].arg) = Len(prompt) + Len(transcript_text)
         /\ SubSeq(calls[i].arg, 1, Len(prompt)) = prompt
         /\ SubSeq(calls[i].arg, Len(prompt) + 1, Len(calls[i].arg)) = transcript_text
         /\ IsJoinOf(transcript_text, calls[LastTranscriptCall].outcome.segments)

\* C8 witness: segments "bc","a" reached the summarizer as prompt + "bc a"
C8_Witness ==
  /\ Called("generate_content")
  /\ calls[LastTranscriptCall].outcome.segments = << <<"b", "c">>, <<"a">> >>
  /\ calls[PosOf("generate_content")].arg = prompt \o << "b", "c", " ", "a" >>

IsPositive(comment) == TextBlobSentiment(comment).polarity > 0

IsNegative(comment) == TextBlobSentiment(comment).polarity < 0

IsNeutral(comment) == TextBlobSentiment(comment).polarity = 0

\* C9: the buckets are the returned comments split by the sign of their
\* polarity alone, each bucket in the original order, every comment in
\* exactly one bucket.
C9_Bucketing ==
  (comments_by_sentiment # UnsetDict) =>
    LET items == calls[PosOf("commentThreads.list")].outcome.items
        b == comments_by_sentiment
    IN  /\ b.Positive = SelectSeq(items, IsPositive)
        /\ b.Negative = SelectSeq(items, IsNegative)
        /\ b.Neutral = SelectSeq(items, IsNeutral)
        /\ Len(b.Positive) + Len(b.Negative) + Len(b.Neutral) = Len(items)

\* C9 witness: a subjective comment of polarity 0 went to Neutral and a
\* slightly negative one to Negative
C9_Witness ==
  /\ comments_by_sentiment # UnsetDict
  /\ comments_by_sentiment.Neutral = << "my opinion" >>
  /\ comments_by_sentiment.Negative = << "barely bad" >>
  /\ calls[PosOf("commentThreads.list")].outcome.items = << "my opinion", "barely bad" >>

\* C10: variant 1: a finished Get Detailed Notes click has rendered the
\* Detailed Notes block or shown at least one error message.
C10_VisibleFeedback ==
  (variant = 1 /\ ClickDone) =>
    \/ Shown("markdown", "## Detailed Notes:")
    \/ \E i \in 1..Len(display) : display[i].kind = "error"

====
